---- MODULE Spec2Model ----
(***************************************************************************)
(* Drive-Time Company Map Viewer (src/streamlit_app.py).                   *)
(*                                                                         *)
(* The program is a Streamlit script: every user interaction (typing the   *)
(* API key, moving the duration input, uploading a file, ticking a project *)
(* checkbox, pressing rerun) runs the script from its first line with the  *)
(* widgets' current values.  st.session_state and the st.cache_data cache  *)
(* of get_isochrone live across runs; everything else is local to a run.   *)
(*                                                                         *)
(* A run is modelled from its first line to the end of the sidebar and     *)
(* colour set-up by one action per interaction (the operator Script), and  *)
(* then one action per iteration of the two isochrone loops and one for    *)
(* the final display, so that the provider's answer to each network call   *)
(* is a separate nondeterministic choice.  A run is not interrupted by a   *)
(* further interaction.  Uploaded 'Companies' sheets hold at least one     *)
(* row, names are non-null and coordinates are finite.                     *)
(***************************************************************************)
EXTENDS Integers, Sequences, FiniteSets, TLC

\* ---------------------------------------------------------------- bounds
MaxRuns == 4          \* script runs in one session
MaxMinutes == 11      \* the duration input ranges over DefaultMinutes..MaxMinutes
NumPolys == 2         \* distinct polygons the provider may answer
MaxGroups == 22       \* distinct 'Company Name' values of a colour-test sheet
MaxColorRows == 24    \* rows of a colour-test sheet

\* ------------------------------------------------------ program constants
DefaultMinutes == 10      \* slider default, line 39
SecondsPerMinute == 60    \* line 42

RequiredCompanies == <<"Company Location", "Latitude", "Longitude", "Company Name">>
RequiredProjects == <<"Project Name", "Latitude", "Longitude">>

\* plt.colormaps['tab20'] through mcolors.to_hex: the palette's 20 entries
Tab20 ==
  << "#1f77b4", "#aec7e8", "#ff7f0e", "#ffbb78", "#2ca02c", "#98df8a",
     "#d62728", "#ff9896", "#9467bd", "#c5b0d5", "#8c564b", "#c49c94",
     "#e377c2", "#f7b6d2", "#7f7f7f", "#c7c7c7", "#bcbd22", "#dbdb8d",
     "#17becf", "#9edae5" >>

ProjectColor == "#ff0000"

\* ------------------------------------------------------------ input sets
Range(s) == {s[j] : j \in DOMAIN s}

ApiKeys == {"k1", "k2"}
KeyInputs == {""} \cup ApiKeys

Minutes == DefaultMinutes..MaxMinutes

Polys == 1..NumPolys

\* <<longitude, latitude>>
P1 == <<1, 1>>
P2 == <<1, 2>>

\* a row of 'Companies': Company Location, Company Name, and the coordinates
CRow(l, g, p) == [loc |-> l, name |-> g, lat |-> p[2], lon |-> p[1]]

\* a row of 'Projects': Project Name and the coordinates
PRow(n, p) == [name |-> n, lat |-> p[2], lon |-> p[1]]

\* what pd.ExcelFile / pd.read_excel give for an upload: the columns of the
\* two sheets and their rows
Workbook(cc, pcs, cs, ps) ==
  [present |-> TRUE, ccols |-> cc, pcols |-> pcs, companies |-> cs, projects |-> ps]

NoFile ==
  [present |-> FALSE, ccols |-> {}, pcols |-> {}, companies |-> <<>>, projects |-> <<>>]

ValidFile(cs, ps) == Workbook(Range(RequiredCompanies), Range(RequiredProjects), cs, ps)

\* The uploads of the session model: coordinates shared by a project site and
\* a company (P1), two company rows at the same coordinates and of the same
\* group, a project name twice in one sheet, a project name that comes back
\* with other coordinates ("P"), a new project name ("Q"), a sheet without
\* projects.
ValidFiles ==
  { ValidFile(<<CRow("A", 1, P1), CRow("B", 2, P2)>>, <<PRow("P", P2), PRow("P", P1)>>),
    ValidFile(<<CRow("B", 2, P2), CRow("C", 2, P2)>>, <<PRow("P", P2), PRow("Q", P1)>>),
    ValidFile(<<CRow("A", 1, P1)>>, <<>>) }

\* the sheets of a file that lacks the columns cc of 'Companies' and pcs of 'Projects'
Lacking(cc, pcs) ==
  Workbook(Range(RequiredCompanies) \ cc, Range(RequiredProjects) \ pcs,
           <<CRow("A", 1, P1)>>, <<PRow("P", P2)>>)

BadFiles ==
  { Lacking({"Latitude"}, {}), Lacking({"Company Name"}, {"Project Name", "Longitude"}) }

Files == ValidFiles \cup BadFiles

\* every way of lacking required columns
AllBadFiles ==
  { Lacking(cc, pcs) : cc \in SUBSET Range(RequiredCompanies),
                       pcs \in SUBSET Range(RequiredProjects) } \ {Lacking({}, {})}

\* A 'Companies' sheet of `len` rows whose group names cycle through `groups`
\* names, starting at `offset` and stepping by `stride`: the names first appear
\* in an order that is not the sorted one, and come back after `groups` rows.
ColorSheet(groups, len, stride, offset) ==
  [j \in 1..len |-> CRow("A", ((stride * (j - 1) + offset) % groups) + 1, P1)]

ColorFiles ==
  UNION { { ValidFile(ColorSheet(g, len, stride, offset), <<>>) :
              len \in {g, MaxColorRows}, stride \in {1, 3}, offset \in {0, 7} } :
          g \in 1..MaxGroups }

\* ------------------------------------------------- pure parts of the script

\* [x \in {} |-> ...]: an empty dict / an empty cache
EmptyFn == [x \in {} |-> 0]

NoErr == [sheet |-> "", col |-> ""]

\* lines 56-59: the first required column, in the order of the list, that the
\* sheet lacks (0 when none is missing)
FirstMissing(req, cols) ==
  IF \E j \in DOMAIN req : req[j] \notin cols
    THEN CHOOSE j \in DOMAIN req :
           /\ req[j] \notin cols
           /\ \A k \in 1..(j - 1) : req[k] \in cols
    ELSE 0

\* variant: only the columns of 'Companies' are checked
LoadErrorCompaniesOnly(f) ==
  LET c == FirstMissing(RequiredCompanies, f.ccols)
  IN  IF c # 0 THEN [sheet |-> "Companies", col |-> RequiredCompanies[c]] ELSE NoErr

\* lines 51-63: the assertion that fails first; 'Companies' is checked before
\* 'Projects'.  The message of the AssertionError names the sheet and the column.
LoadError(f) ==
  LET c == FirstMissing(RequiredCompanies, f.ccols)
      p == FirstMissing(RequiredProjects, f.pcols)
  IN  IF c # 0 THEN [sheet |-> "Companies", col |-> RequiredCompanies[c]]
      ELSE IF p # 0 THEN [sheet |-> "Projects", col |-> RequiredProjects[p]]
      ELSE NoErr

\* lines 68-72: project_sites[row['Project Name']] = {...}; a dict keeps the
\* position of a key's first insertion and the value of its last
PutSite(sites, row) ==
  LET site == [name |-> row.name, lat |-> row.lat, lon |-> row.lon, visible |-> TRUE]
  IN  IF \E j \in DOMAIN sites : sites[j].name = row.name
        THEN [j \in DOMAIN sites |-> IF sites[j].name = row.name THEN site ELSE sites[j]]
        ELSE Append(sites, site)

RECURSIVE SitesFrom(_, _)
SitesFrom(sites, rows) ==
  IF rows = <<>> THEN sites ELSE SitesFrom(PutSite(sites, Head(rows)), Tail(rows))

\* variant: the sites are rebuilt from every uploaded file
InitProjectSitesEveryLoad(sites, rows) == SitesFrom(<<>>, rows)

\* lines 66-72: the sites are filled from the 'Projects' sheet only while the
\* stored dict is empty
InitProjectSites(sites, rows) ==
  IF sites = <<>> THEN SitesFrom(<<>>, rows) ELSE sites

\* lines 85-88: all_competitors.add(cname)
AddCompetitors(known, rows) == known \cup {rows[j].loc : j \in DOMAIN rows}

\* variant: a newly seen location starts hidden
InitCompetitorVisibilityHidden(vis, rows) ==
  [c \in DOMAIN vis \cup {rows[j].loc : j \in DOMAIN rows} |->
     IF c \in DOMAIN vis THEN vis[c] ELSE FALSE]

\* lines 85-88: competitor_visibility.setdefault(cname, True)
InitCompetitorVisibility(vis, rows) ==
  [c \in DOMAIN vis \cup {rows[j].loc : j \in DOMAIN rows} |->
     IF c \in DOMAIN vis THEN vis[c] ELSE TRUE]

\* lines 92-93: every checkbox is drawn with the stored flag as its value and
\* its result is stored back; `toggled` is the checkbox the user has just
\* clicked ("" when the run was caused by something else)
ReadCheckboxes(sites, toggled) ==
  [j \in DOMAIN sites |->
     [sites[j] EXCEPT !.visible = IF sites[j].name = toggled THEN ~@ ELSE @]]

\* line 100: Series.unique() keeps the values in order of first appearance
RECURSIVE Unique(_)
Unique(s) ==
  IF s = <<>> THEN <<>>
  ELSE LET rest == Unique(SubSeq(s, 1, Len(s) - 1))
           last == s[Len(s)]
       IN  IF last \in Range(rest) THEN rest ELSE Append(rest, last)

\* line 103: mcolors.to_hex(colormap(k)) for an index k of the palette
ColormapHex(k) == Tab20[k + 1]

\* variant: an index past the palette is clamped to its last entry
PaletteIndexClamped(i) == IF i < Len(Tab20) THEN i ELSE Len(Tab20) - 1

\* line 103: colormap(i % colormap.N), i counted from 0
PaletteIndex(i) == i % Len(Tab20)

\* lines 100-105: the dict company_colors, in insertion order
CompanyColors(rows) ==
  LET u == Unique([j \in DOMAIN rows |-> rows[j].name])
  IN  [j \in DOMAIN u |-> [name |-> u[j], color |-> ColormapHex(PaletteIndex(j - 1))]]

\* line 130: company_colors[row['Company Name']]
ColorOf(colors, name) ==
  colors[CHOOSE j \in DOMAIN colors : colors[j].name = name].color

\* lines 156-162: one legend item per entry of company_colors, in dict order
LegendItems(colors) == [j \in DOMAIN colors |-> <<colors[j].color, colors[j].name>>]

\* line 42
DriveTimeSeconds(minutes) == minutes * SecondsPerMinute

\* variant: the client is hashed with the other arguments
CacheKeyWithClient(c, lon, lat, seconds) == <<c, lon, lat, seconds>>

\* lines 75-76: st.cache_data hashes the arguments of the call, leaving out
\* those whose name starts with an underscore (_client)
CacheKey(c, lon, lat, seconds) == <<lon, lat, seconds>>

\* ------------------------------------------------------------------ state
VARIABLES
  api_key,                \* st.session_state["api_key"]
  project_sites,          \* st.session_state.project_sites, in dict order
  competitor_visibility,  \* st.session_state.competitor_visibility
  all_competitors,        \* st.session_state.all_competitors
  cache,                  \* the st.cache_data store of get_isochrone
  client,                 \* the key the run's openrouteservice.Client holds
  drive_time_minutes,     \* the duration input of the run
  file,                   \* the uploaded file the run read (NoFile: none read)
  company_colors,         \* the dict of line 102
  m,                      \* the overlays added to the folium map, in order
  legend,                 \* the legend items rendered by line 170
  displayed,              \* whether st_folium has shown the map in this run
  pc,                     \* the place the run is at, or has ended at
  i,                      \* index of the next entry of the loop at pc
  outcome,                \* how the run ended, "running" while it has not
  err,                    \* the sheet and column named by st.error
  call,                   \* the run's latest call of get_isochrone
  netCalls,               \* calls of _client.isochrones in this run
  hits,                   \* calls of get_isochrone served from the cache
  sleeps,                 \* calls of time.sleep(1) in this run
  runKind,                \* history: what the run started from
  fetchers,               \* history: the clients whose network calls filled the cache
  shownIso,               \* history: first polygon overlaid per (site, minutes)
  hiddenSince,            \* history: (site, minutes) shown and later skipped as hidden
  runs                    \* number of script runs so far

session == <<api_key, project_sites, competitor_visibility, all_competitors, cache>>
local == <<client, drive_time_minutes, file, company_colors, m, legend, displayed,
           pc, i, outcome, err, call, netCalls, hits, sleeps>>
history == <<runKind, fetchers, shownIso, hiddenSince, runs>>
vars == <<session, local, history>>

NoCall == [made |-> FALSE, lon |-> 0, lat |-> 0, seconds |-> 0, hit |-> FALSE,
           ok |-> FALSE, iso |-> 0]

\* lines 15-20: the state of a fresh session, before the first run
Init ==
  /\ api_key = ""
  /\ project_sites = <<>>
  /\ competitor_visibility = EmptyFn
  /\ all_competitors = {}
  /\ cache = EmptyFn
  /\ client = ""
  /\ drive_time_minutes = DefaultMinutes
  /\ file = NoFile
  /\ company_colors = <<>>
  /\ m = <<>>
  /\ legend = <<>>
  /\ displayed = FALSE
  /\ pc = "start"
  /\ i = 1
  /\ outcome = "none"
  /\ err = NoErr
  /\ call = NoCall
  /\ netCalls = 0
  /\ hits = 0
  /\ sleeps = 0
  /\ runKind = "other"
  /\ fetchers = {}
  /\ shownIso = EmptyFn
  /\ hiddenSince = {}
  /\ runs = 0

\* variant: the key check lets an empty key through
HasKeyAlways(k) == TRUE

\* line 31: if st.session_state["api_key"]
HasKey(k) == k # ""

\* What a run starts from: an empty cache, or the inputs of the completed run
\* before it (same file, same duration, same visibility flags).
StartKind(f, d, sites) ==
  IF cache = EmptyFn THEN "cold"
  ELSE IF outcome = "rendered" /\ f = file /\ d = drive_time_minutes /\ sites = project_sites
    THEN (IF runKind = "cold" THEN "repeat_of_cold" ELSE "repeat")
  ELSE "other"

\* The run's local names and counters at its first line.
Fresh ==
  /\ m' = <<>>
  /\ legend' = <<>>
  /\ displayed' = FALSE
  /\ i' = 1
  /\ call' = NoCall
  /\ netCalls' = 0
  /\ hits' = 0
  /\ sleeps' = 0

\* lines 11-105: one run of the script up to the first isochrone loop, with the
\* text of the key field, the duration input, the uploaded file and the
\* checkbox the user has just clicked.
Script(key_in, minutes, f, toggled) ==
  LET key == IF key_in # "" THEN key_in ELSE api_key                 \* lines 27-28
      e == LoadError(f)
      sites == ReadCheckboxes(InitProjectSites(project_sites, f.projects), toggled)
  IN
  /\ runs < MaxRuns
  /\ runs' = runs + 1
  /\ api_key' = key
  /\ Fresh
  /\ UNCHANGED <<cache, fetchers, shownIso, hiddenSince>>
  /\ IF ~HasKey(key) THEN                                             \* lines 33-35
       /\ pc' = "key_check" /\ outcome' = "warning" /\ err' = NoErr /\ company_colors' = <<>>
       /\ client' = "" /\ file' = NoFile /\ runKind' = "other"
       /\ UNCHANGED <<drive_time_minutes, project_sites, competitor_visibility, all_competitors>>
     ELSE IF ~f.present THEN                                          \* lines 46-48
       /\ pc' = "upload" /\ outcome' = "info" /\ err' = NoErr /\ company_colors' = <<>>
       /\ client' = key /\ file' = NoFile /\ runKind' = "other"
       /\ drive_time_minutes' = minutes
       /\ UNCHANGED <<project_sites, competitor_visibility, all_competitors>>
     ELSE IF e # NoErr THEN                                           \* lines 61-63
       /\ pc' = "load" /\ outcome' = "load_error" /\ err' = e /\ company_colors' = <<>>
       /\ client' = key /\ file' = f /\ runKind' = "other"
       /\ drive_time_minutes' = minutes
       /\ UNCHANGED <<project_sites, competitor_visibility, all_competitors>>
     ELSE                                                             \* lines 65-105
       /\ pc' = IF sites = <<>> THEN "companies" ELSE "projects"
       /\ outcome' = "running" /\ err' = NoErr
       /\ client' = key /\ file' = f
       /\ runKind' = StartKind(f, minutes, sites)
       /\ drive_time_minutes' = minutes
       /\ project_sites' = sites
       /\ all_competitors' = AddCompetitors(all_competitors, f.companies)
       /\ competitor_visibility' = InitCompetitorVisibility(competitor_visibility, f.companies)
       /\ company_colors' = CompanyColors(f.companies)

Ended == outcome # "running"

\* The widgets below the key check exist once a run has got past it.
PastKeyCheck == outcome \notin {"none", "warning", "running"}

\* The checkboxes exist once a run has got past the load.
PastLoad == outcome \in {"exception", "rendered"}

\* The user types into the key field (or clears it): lines 22-28.
EnterKey ==
  /\ Ended
  /\ \E k \in KeyInputs \ {api_key} : Script(k, drive_time_minutes, file, "")

\* The user reruns the page with every widget as it is.
Rerun ==
  /\ Ended
  /\ Script(api_key, drive_time_minutes, file, "")

\* The user changes the duration: lines 39-42.
SetMinutes ==
  /\ PastKeyCheck
  /\ \E d \in Minutes \ {drive_time_minutes} : Script(api_key, d, file, "")

\* The user uploads another file, or removes the uploaded one: line 45.
UploadFrom(fs) ==
  /\ PastKeyCheck
  /\ \E f \in fs \ {file} : Script(api_key, drive_time_minutes, f, "")

Upload == UploadFrom(Files \cup {NoFile})

\* The user clicks the checkbox of one project site: line 93.
Toggle ==
  /\ PastLoad
  /\ \E j \in DOMAIN project_sites :
       Script(api_key, drive_time_minutes, file, project_sites[j].name)

\* ------------------------------------------------------- get_isochrone
Extend(f, k, v) == [x \in DOMAIN f \cup {k} |-> IF x = k THEN v ELSE f[x]]

\* lines 75-82: the possible results of one call.  A call whose key is in the
\* cache returns the stored value; any other calls the provider, which answers
\* with some polygon or fails (the exception is not cached).
GetIsochrone(c, lon, lat, seconds) ==
  LET k == CacheKey(c, lon, lat, seconds)
      r == [made |-> TRUE, lon |-> lon, lat |-> lat, seconds |-> seconds,
            hit |-> FALSE, ok |-> TRUE, iso |-> 0]
  IN  IF k \in DOMAIN cache
        THEN {[r EXCEPT !.hit = TRUE, !.iso = cache[k]]}
        ELSE {[r EXCEPT !.iso = p] : p \in Polys} \cup {[r EXCEPT !.ok = FALSE]}

\* variant: nothing is ever stored
CacheAfterNoStore(c, r) == cache

\* variant: the outcome of a failed call is stored like a polygon
CacheAfterStoreFailure(c, r) ==
  IF ~r.hit THEN Extend(cache, CacheKey(c, r.lon, r.lat, r.seconds), r.iso) ELSE cache

\* lines 75-82: the cache after a call with result r
CacheAfter(c, r) ==
  IF r.ok /\ ~r.hit
    THEN Extend(cache, CacheKey(c, r.lon, r.lat, r.seconds), r.iso)
    ELSE cache

\* history: the clients that have filled a cache entry
FetchersAfter(c, r) == IF r.ok /\ ~r.hit THEN fetchers \cup {c} ELSE fetchers

\* variant: the delay follows network calls only
SleepsAfterNetworkOnly(r) == sleeps + (IF r.hit THEN 0 ELSE 1)

\* lines 123 and 143: time.sleep(1) ends the body of `if visible`, after the
\* call and the overlays
SleepsAfter(r) == sleeps + 1

\* The counters of a call with result r.
Counted(r) ==
  /\ call' = r
  /\ netCalls' = netCalls + (IF r.hit THEN 0 ELSE 1)
  /\ hits' = hits + (IF r.hit THEN 1 ELSE 0)

\* lines 108-123: one iteration of the loop over the project sites
ProjectStep ==
  /\ pc = "projects" /\ outcome = "running"
  /\ LET pdata == project_sites[i]
         last == (i = Len(project_sites))
         at == <<pdata.name, drive_time_minutes>>
     IN
     IF ~pdata.visible THEN                                           \* line 109
       /\ pc' = IF last THEN "companies" ELSE pc
       /\ i' = IF last THEN 1 ELSE i + 1
       /\ hiddenSince' = hiddenSince \cup {x \in DOMAIN shownIso : x[1] = pdata.name}
       /\ UNCHANGED <<session, client, drive_time_minutes, file, company_colors, m, legend,
                      displayed, outcome, err, call, netCalls, hits, sleeps,
                      runKind, fetchers, shownIso, runs>>
     ELSE
       \E r \in GetIsochrone(client, pdata.lon, pdata.lat, DriveTimeSeconds(drive_time_minutes)) :
         /\ Counted(r)
         /\ cache' = CacheAfter(client, r)
         /\ fetchers' = FetchersAfter(client, r)
         /\ IF r.ok THEN
              /\ m' = Append(m, [kind |-> "project", name |-> pdata.name, iso |-> r.iso,
                                 color |-> ProjectColor])              \* lines 111-122
              /\ sleeps' = SleepsAfter(r)                               \* line 123
              /\ shownIso' = IF at \in DOMAIN shownIso THEN shownIso
                             ELSE Extend(shownIso, at, r.iso)
              /\ pc' = IF last THEN "companies" ELSE pc
              /\ i' = IF last THEN 1 ELSE i + 1
              /\ UNCHANGED outcome
            ELSE
              /\ outcome' = "exception"
              /\ UNCHANGED <<m, sleeps, shownIso, pc, i>>
         /\ UNCHANGED <<api_key, project_sites, competitor_visibility, all_competitors,
                        client, drive_time_minutes, file, company_colors, legend, displayed,
                        err, runKind, hiddenSince, runs>>

\* lines 126-143: one iteration of the loop over the rows of 'Companies'
CompanyStep ==
  /\ pc = "companies" /\ outcome = "running"
  /\ LET row == file.companies[i]
         last == (i = Len(file.companies))
     IN
     IF ~competitor_visibility[row.loc] THEN                          \* line 128
       /\ pc' = IF last THEN "display" ELSE pc
       /\ i' = IF last THEN 1 ELSE i + 1
       /\ UNCHANGED <<session, client, drive_time_minutes, file, company_colors, m, legend,
                      displayed, outcome, err, call, netCalls, hits, sleeps, history>>
     ELSE
       \E r \in GetIsochrone(client, row.lon, row.lat, DriveTimeSeconds(drive_time_minutes)) :
         /\ Counted(r)
         /\ cache' = CacheAfter(client, r)
         /\ fetchers' = FetchersAfter(client, r)
         /\ IF r.ok THEN
              /\ m' = Append(m, [kind |-> "company", name |-> row.loc, iso |-> r.iso,
                                 color |-> ColorOf(company_colors, row.name)])  \* lines 130-142
              /\ sleeps' = SleepsAfter(r)                               \* line 143
              /\ pc' = IF last THEN "display" ELSE pc
              /\ i' = IF last THEN 1 ELSE i + 1
              /\ UNCHANGED outcome
            ELSE
              /\ outcome' = "exception"
              /\ UNCHANGED <<m, sleeps, pc, i>>
         /\ UNCHANGED <<api_key, project_sites, competitor_visibility, all_competitors,
                        client, drive_time_minutes, file, company_colors, legend, displayed,
                        err, runKind, shownIso, hiddenSince, runs>>

\* lines 146-170: the map and the legend are shown
Display ==
  /\ pc = "display" /\ outcome = "running"
  /\ displayed' = TRUE
  /\ legend' = LegendItems(company_colors)
  /\ outcome' = "rendered"
  /\ UNCHANGED <<session, client, drive_time_minutes, file, company_colors, m, pc, i,
                 err, call, netCalls, hits, sleeps, history>>

Next ==
  \/ EnterKey
  \/ Rerun
  \/ SetMinutes
  \/ Upload
  \/ Toggle
  \/ ProjectStep
  \/ CompanyStep
  \/ Display

Spec == Init /\ [][Next]_vars

\* ------------------------------------------------ the load, on every bad file
UploadAny == UploadFrom(AllBadFiles \cup ValidFiles \cup {NoFile})

NextLoad ==
  \/ EnterKey
  \/ UploadAny
  \/ ProjectStep
  \/ CompanyStep
  \/ Display

SpecLoad == Init /\ [][NextLoad]_vars

\* ------------------------------------------- the colour assignment, alone
\* lines 100-105 on an uploaded sheet, at the start of a run
LoadColors ==
  /\ pc \in {"start", "legend"}
  /\ \E f \in ColorFiles :
       /\ file' = f
       /\ company_colors' = CompanyColors(f.companies)
  /\ pc' = "colors"
  /\ legend' = <<>>
  /\ UNCHANGED <<session, client, drive_time_minutes, m, displayed, i, outcome,
                 err, call, netCalls, hits, sleeps, history>>

\* lines 152-170
ShowLegend ==
  /\ pc = "colors"
  /\ legend' = LegendItems(company_colors)
  /\ pc' = "legend"
  /\ UNCHANGED <<session, client, drive_time_minutes, file, company_colors, m, displayed, i,
                 outcome, err, call, netCalls, hits, sleeps, history>>

NextColor ==
  \/ LoadColors
  \/ ShowLegend

SpecColor == Init /\ [][NextColor]_vars

\* ================================================================ claims

SiteNames(sites) == {sites[j].name : j \in DOMAIN sites}

VisibleSites == SelectSeq(project_sites, LAMBDA site : site.visible)

Seconds == DriveTimeSeconds(drive_time_minutes)

\* the (lon, lat, seconds) of every entry a pass over the current inputs retrieves
PassTriples ==
  {<<VisibleSites[j].lon, VisibleSites[j].lat, Seconds>> : j \in DOMAIN VisibleSites}
  \cup {<<file.companies[j].lon, file.companies[j].lat, Seconds>> : j \in DOMAIN file.companies}

PassEntries == Len(VisibleSites) + Len(file.companies)

Repeated == runKind \in {"repeat", "repeat_of_cold"}

\* C1 as stated: a completed pass that started with an empty cache has made
\* exactly N + M network calls, and a completed pass that repeats the inputs of
\* the completed pass before it has made none.
C1_ExactlyNPlusM ==
  outcome = "rendered" =>
    /\ runKind = "cold" => netCalls = PassEntries
    /\ Repeated => netCalls = 0

\* C1 amended: a completed pass that started with an empty cache has made one
\* network call per distinct (lon, lat, seconds) among its N + M entries (so at
\* most N + M, and N + M when the coordinates are pairwise distinct); a
\* completed pass that repeats the inputs of the completed pass before it has
\* made none, every one of its N + M calls being a cache hit.
C1_OneCallPerDistinctTriple ==
  outcome = "rendered" =>
    /\ runKind = "cold" =>
         /\ netCalls = Cardinality(PassTriples)
         /\ netCalls <= PassEntries
         /\ Cardinality(PassTriples) = PassEntries => netCalls = PassEntries
    /\ Repeated => netCalls = 0 /\ hits = PassEntries

C1_Witness ==
  /\ outcome = "rendered"
  /\ runKind = "repeat_of_cold"
  /\ Len(VisibleSites) >= 1
  /\ Len(file.companies) >= 2
  /\ Cardinality(PassTriples) < PassEntries

\* C2: a run that leaves the stored API key empty has stopped at the key check
\* with the warning: it has read no file and made no call of get_isochrone,
\* hence no network call.
C2_NoKeyNoCall ==
  (outcome # "none" /\ api_key = "") =>
    /\ outcome = "warning"
    /\ pc = "key_check"
    /\ ~file.present
    /\ call = NoCall /\ netCalls = 0 /\ hits = 0
    /\ m = <<>> /\ ~displayed

C2_Witness == outcome = "warning" /\ runs >= 2

MissingCompanies(f) == Range(RequiredCompanies) \ f.ccols
MissingProjects(f) == Range(RequiredProjects) \ f.pcols

\* C3: a run on a file that lacks a required column has ended at the load with
\* an error naming a column the file lacks (and its sheet); it has retrieved no
\* isochrone and shown neither map nor legend.
C3_MissingColumnStopsRun ==
  (file.present /\ (MissingCompanies(file) # {} \/ MissingProjects(file) # {})) =>
    /\ outcome = "load_error"
    /\ pc = "load"
    /\ \/ err.sheet = "Companies" /\ err.col \in MissingCompanies(file)
       \/ err.sheet = "Projects" /\ err.col \in MissingProjects(file)
    /\ call = NoCall /\ netCalls = 0 /\ hits = 0
    /\ m = <<>> /\ ~displayed /\ legend = <<>>

C3_Witness ==
  /\ outcome = "load_error"
  /\ err = [sheet |-> "Projects", col |-> "Longitude"]
  /\ cache # EmptyFn

CallMade == hits' + netCalls' = hits + netCalls + 1

\* C4: no step removes or changes a cache entry; a call of get_isochrone whose
\* (lon, lat, seconds) is in the cache returns the stored polygon without a
\* network call and leaves the cache as it is, whichever client makes it; any
\* other call goes to the network and, when it succeeds, adds exactly the entry
\* (lon, lat, seconds) -> polygon.
C4_CacheKeyedByTriple ==
  [][ /\ \A k \in DOMAIN cache : k \in DOMAIN cache' /\ cache'[k] = cache[k]
      /\ CallMade =>
           LET t == <<call'.lon, call'.lat, call'.seconds>>
           IN  IF t \in DOMAIN cache
                 THEN /\ call'.hit /\ call'.ok /\ call'.iso = cache[t]
                      /\ netCalls' = netCalls
                      /\ cache' = cache
                 ELSE /\ ~call'.hit
                      /\ netCalls' = netCalls + 1
                      /\ cache' = IF call'.ok THEN Extend(cache, t, call'.iso) ELSE cache
    ]_vars

\* a hit by a client other than the ones that filled the cache, with entries
\* of two durations side by side
C4_Witness ==
  /\ call.made /\ call.hit
  /\ fetchers # {} /\ client \notin fetchers
  /\ \E k1 \in DOMAIN cache, k2 \in DOMAIN cache :
       k1[1] = k2[1] /\ k1[2] = k2[2] /\ k1[3] # k2[3]

\* C5: whenever a pass overlays a project site, the polygon is the one first
\* overlaid for that site at that duration, whatever happened in between.
C5_SamePolygonAfterToggle ==
  \A j \in DOMAIN m :
    m[j].kind = "project" =>
      /\ <<m[j].name, drive_time_minutes>> \in DOMAIN shownIso
      /\ m[j].iso = shownIso[<<m[j].name, drive_time_minutes>>]

\* a site overlaid again at a duration at which it was overlaid and then hidden
C5_Witness ==
  \E j \in DOMAIN m :
    /\ m[j].kind = "project"
    /\ <<m[j].name, drive_time_minutes>> \in hiddenSince
    /\ call.made /\ call.hit

LoadSucceeded == outcome # "running" /\ outcome' = "running"

\* C6 as stated: no tracked identifier is ever removed, and a run that gets past
\* the load tracks every 'Project Name' and every 'Company Location' of its
\* file, the ones it has discovered with their flag true.
C6_EveryIdentifierTracked ==
  [][ /\ SiteNames(project_sites) \subseteq SiteNames(project_sites')
      /\ DOMAIN competitor_visibility \subseteq DOMAIN competitor_visibility'
      /\ LoadSucceeded =>
           /\ \A j \in DOMAIN file'.projects :
                file'.projects[j].name \in SiteNames(project_sites')
           /\ \A j \in DOMAIN file'.companies :
                file'.companies[j].loc \in DOMAIN competitor_visibility'
           /\ \A j \in DOMAIN project_sites' :
                project_sites'[j].name \notin SiteNames(project_sites)
                  => project_sites'[j].visible
           /\ \A c \in DOMAIN competitor_visibility' \ DOMAIN competitor_visibility :
                competitor_visibility'[c]
    ]_vars

\* C7: the step in which a retrieval fails leaves the cache as it was, without
\* an entry for the failed (lon, lat, seconds), adds nothing to the map and
\* shows nothing; the run takes no further step (the next step is a new run),
\* and that run too finds every entry the cache held, unchanged.
C7_FailureHaltsPass ==
  [][ /\ outcome = "exception" =>
           \A k \in DOMAIN cache : k \in DOMAIN cache' /\ cache'[k] = cache[k]
      /\ (outcome = "running" /\ outcome' = "exception") =>
           /\ cache' = cache
           /\ call'.made /\ ~call'.ok /\ ~call'.hit
           /\ <<call'.lon, call'.lat, call'.seconds>> \notin DOMAIN cache'
           /\ m' = m /\ ~displayed' /\ legend' = <<>>
           /\ sleeps' = sleeps
      /\ outcome = "exception" => (runs' = runs + 1 /\ m' = <<>> /\ call' = NoCall)
    ]_vars

\* a failure after an overlay of the same pass and with entries in the cache
C7_Witness ==
  /\ outcome = "exception"
  /\ m # <<>>
  /\ cache # EmptyFn
  /\ ~displayed

NameColumn(f) == [j \in DOMAIN f.companies |-> f.companies[j].name]

\* the row at which name g first appears in the column `names`
FirstRow(names, g) ==
  CHOOSE j \in DOMAIN names : names[j] = g /\ \A k \in 1..(j - 1) : names[k] # g

\* the number of distinct names that appear before the first row of group g
GroupIndex(names, g) == Cardinality({names[k] : k \in 1..(FirstRow(names, g) - 1)})

\* C8: the colour looked up for every row is the palette entry at (index of the
\* row's group in first-occurrence order) mod (palette size); every row finds
\* a colour; groups whose indices differ by the palette size share one; and
\* every sheet whose unique names come in the same order gets the same mapping.
C8_ColorByGroupIndex ==
  pc \in {"colors", "legend"} =>
    LET rows == DOMAIN file.companies
        names == [j \in rows |-> file.companies[j].name]
        idx == [j \in rows |-> GroupIndex(names, names[j])]
        col == [j \in rows |-> ColorOf(company_colors, names[j])]
    IN  /\ \A j \in rows :
             /\ \E k \in DOMAIN company_colors : company_colors[k].name = names[j]
             /\ col[j] = Tab20[(idx[j] % Len(Tab20)) + 1]
        /\ \A j, k \in rows : idx[k] = idx[j] + Len(Tab20) => col[k] = col[j]
        /\ \A f \in ColorFiles :
             Unique(NameColumn(f)) = Unique(names) => CompanyColors(f.companies) = company_colors
        /\ pc = "legend" =>
             legend = [j \in DOMAIN company_colors |->
                         <<company_colors[j].color, company_colors[j].name>>]

\* more groups than palette entries, on a sheet that repeats its names, with
\* another sheet of the same group order
C8_Witness ==
  /\ pc = "colors"
  /\ Len(company_colors) > Len(Tab20)
  /\ Len(file.companies) > Len(company_colors)
  /\ company_colors[1].name # 1
  /\ \E f \in ColorFiles : f # file /\ Unique(NameColumn(f)) = Unique(NameColumn(file))

\* C9: one delay per successful call of get_isochrone, hit or network, and none
\* for a failed call or a hidden entry: the delays equal the overlays and the
\* successful calls, and a completed pass has made one per visible project
\* site and one per company row.
C9_DelayPerSuccessfulCall ==
  /\ sleeps = Len(m)
  /\ sleeps = hits + netCalls - (IF outcome = "exception" THEN 1 ELSE 0)
  /\ outcome = "rendered" => sleeps = PassEntries

C9_Witness ==
  /\ outcome = "rendered"
  /\ hits >= 1 /\ netCalls >= 1
  /\ \E j \in DOMAIN project_sites : ~project_sites[j].visible
  /\ Len(VisibleSites) >= 1

AllCompetitorsVisible == \A c \in DOMAIN competitor_visibility : competitor_visibility[c]

MapNames == [j \in DOMAIN m |-> <<m[j].kind, m[j].name>>]

SiteEntries == [j \in DOMAIN VisibleSites |-> <<"project", VisibleSites[j].name>>]

CompanyEntries(n) == [j \in 1..n |-> <<"company", file.companies[j].loc>>]

ReachedCompanies == pc \in {"companies", "display"}

\* C10 as stated: every company flag is true, and a pass that has reached the
\* competitor loop and ended has overlaid every visible project site and then
\* every row of 'Companies', in row order.
C10_EveryRowOverlaid ==
  /\ AllCompetitorsVisible
  /\ (ReachedCompanies /\ outcome # "running") =>
       MapNames = SiteEntries \o CompanyEntries(Len(file.companies))

\* C10 amended: every company flag is true, and a pass in the competitor loop
\* has overlaid every visible project site and then the rows before the one it
\* is at, in row order and skipping none: every row when the pass completes,
\* the rows before the failed one when a retrieval fails.
C10_NoRowSkipped ==
  /\ AllCompetitorsVisible
  /\ DOMAIN competitor_visibility = all_competitors
  /\ ReachedCompanies =>
       /\ MapNames = SiteEntries
                       \o CompanyEntries(IF pc = "display" THEN Len(file.companies) ELSE i - 1)
       /\ \A j \in DOMAIN file.companies : file.companies[j].loc \in DOMAIN competitor_visibility
  /\ outcome = "rendered" => MapNames = SiteEntries \o CompanyEntries(Len(file.companies))

C10_Witness ==
  /\ outcome = "rendered"
  /\ Len(file.companies) >= 2
  /\ Len(VisibleSites) >= 1
  /\ file.companies[1].loc # file.companies[2].loc

====
